---- MODULE Spec2Model ----
(***************************************************************************)
(* Stakeholder Impact Dashboard: the evaluation service                    *)
(* (app/services/evaluator.py behind POST /api/v1/evaluate).               *)
(*                                                                         *)
(* Python floats are modelled as exact rationals with overflow to the      *)
(* IEEE infinities and nan; rounding of finite results and underflow are   *)
(* not modelled.  A raised ZeroDivisionError is a value that is absorbing  *)
(* for the arithmetic, as an exception that propagates out of the          *)
(* expression that raised it.                                              *)
(***************************************************************************)
EXTENDS Integers, Sequences, FiniteSets, TLC

VARIABLES payload, response, pc, clock, uuids, log

vars == <<payload, response, pc, clock, uuids, log>>

(***************************************************************************)
(* Bounds of the model.                                                    *)
(***************************************************************************)
\* Equity ranges over multiples up to MaxScale of the schema default.
MaxScale == 1
\* Latest reading of the UTC clock.
MaxClock == 1
\* Number of evaluate calls made in one behaviour of SpecRepeat.
MaxCalls == 3
\* The largest finite float (sys.float_info.max), scaled down and counted in
\* thousands: every magnitude the model computes from smaller inputs stays
\* below it.
FloatMaxThousands == 5

FloatMax == FloatMaxThousands * 1000

(***************************************************************************)
(* Float arithmetic.  A finite float is an exact rational in lowest terms  *)
(* with d > 0; d = 0 holds the IEEE specials (n = 1: inf, n = -1: -inf,    *)
(* n = 0: nan); d < 0 is a raised ZeroDivisionError.  A result whose       *)
(* magnitude exceeds FloatMax overflows to an infinity.                    *)
(***************************************************************************)
Abs(i) == IF i < 0 THEN -i ELSE i

Sign(i) == IF i > 0 THEN 1 ELSE IF i < 0 THEN -1 ELSE 0

RECURSIVE GCD(_, _)
GCD(a, b) == IF b = 0 THEN a ELSE GCD(b, a % b)

\* n / d in lowest terms, d # 0.
Rat(n, d) ==
    LET g == GCD(Abs(n), Abs(d))
        s == IF d < 0 THEN -1 ELSE 1
    IN  [n |-> (s * n) \div g, d |-> (s * d) \div g]

R(i) == [n |-> i, d |-> 1]

Inf(sign) == [n |-> sign, d |-> 0]

NaN == [n |-> 0, d |-> 0]

ZeroDivisionError == [n |-> 0, d |-> -1]

Raised(x) == x.d < 0

IsNaN(x) == x.d = 0 /\ x.n = 0

IsInf(x) == x.d = 0 /\ x.n # 0

IsZero(x) == x.d > 0 /\ x.n = 0

\* The float an exact result n / d becomes: itself, or an infinity when it
\* lies beyond the largest finite float.
Float(n, d) ==
    LET q     == Rat(n, d)
        whole == Abs(q.n) \div q.d
    IN  IF whole > FloatMax \/ (whole = FloatMax /\ Abs(q.n) % q.d # 0)
        THEN Inf(Sign(q.n))
        ELSE q

RAdd(a, b) ==
    IF Raised(a) \/ Raised(b) THEN ZeroDivisionError
    ELSE IF IsNaN(a) \/ IsNaN(b) THEN NaN
    ELSE IF IsInf(a) /\ IsInf(b) THEN (IF a.n = b.n THEN a ELSE NaN)
    ELSE IF IsInf(a) THEN a
    ELSE IF IsInf(b) THEN b
    ELSE Float(a.n * b.d + b.n * a.d, a.d * b.d)

RNeg(a) == IF Raised(a) THEN ZeroDivisionError ELSE [n |-> -a.n, d |-> a.d]

RSub(a, b) == RAdd(a, RNeg(b))

RMul(a, b) ==
    IF Raised(a) \/ Raised(b) THEN ZeroDivisionError
    ELSE IF IsNaN(a) \/ IsNaN(b) THEN NaN
    ELSE IF IsInf(a) \/ IsInf(b)
         THEN (IF a.n = 0 \/ b.n = 0 THEN NaN ELSE Inf(Sign(a.n) * Sign(b.n)))
    ELSE Float(a.n * b.n, a.d * b.d)

\* float.__truediv__: raises ZeroDivisionError on a zero divisor.
RDiv(a, b) ==
    IF Raised(a) \/ Raised(b) \/ IsZero(b) THEN ZeroDivisionError
    ELSE IF IsNaN(a) \/ IsNaN(b) THEN NaN
    ELSE IF IsInf(a) THEN (IF IsInf(b) THEN NaN ELSE Inf(Sign(a.n) * Sign(b.n)))
    ELSE IF IsInf(b) THEN R(0)
    ELSE Float(a.n * b.d, a.d * b.n)

\* Every comparison with nan is false.
RLt(a, b) ==
    IF IsNaN(a) \/ IsNaN(b) THEN FALSE
    ELSE IF IsInf(a) /\ IsInf(b) THEN a.n < b.n
    ELSE IF IsInf(a) THEN a.n < 0
    ELSE IF IsInf(b) THEN b.n > 0
    ELSE a.n * b.d < b.n * a.d

RGt(a, b) == RLt(b, a)

RLe(a, b) == ~IsNaN(a) /\ ~IsNaN(b) /\ ~RLt(b, a)

RAbs(a) == [n |-> Abs(a.n), d |-> a.d]

\* Python's max and min return the first argument unless a later one is
\* strictly greater (smaller).
PyMax(a, b) == IF RGt(b, a) THEN b ELSE a

PyMin(a, b) == IF RLt(b, a) THEN b ELSE a

PyMax3(a, b, c) == PyMax(PyMax(a, b), c)

(***************************************************************************)
(* ".{decimals}f" formatting: round half to even at the given number of    *)
(* decimals, sign kept (also when the rounded magnitude is zero), at       *)
(* least one integer digit, the fraction zero-padded; "inf", "-inf" and    *)
(* "nan" for the specials.  Rounding is done on the exact value, so the    *)
(* last digit can differ from the float's where that value is a decimal    *)
(* tie.                                                                    *)
(***************************************************************************)
Pow10(k) == IF k = 0 THEN 1 ELSE IF k = 1 THEN 10 ELSE 100

RoundHalfEven(a) ==
    LET q == a.n \div a.d
        r == a.n % a.d
    IN  IF 2 * r < a.d THEN q
        ELSE IF 2 * r > a.d THEN q + 1
        ELSE IF q % 2 = 0 THEN q ELSE q + 1

ZeroPad(i, width) ==
    IF width = 0 THEN ""
    ELSE IF width = 2 /\ i < 10 THEN "0" \o ToString(i)
    ELSE ToString(i)

FormatFixed(value, decimals) ==
    IF IsNaN(value) THEN "nan"
    ELSE IF IsInf(value) THEN (IF value.n < 0 THEN "-inf" ELSE "inf")
    ELSE LET mag    == RAbs(value)
             scaled == RoundHalfEven([n |-> mag.n * Pow10(decimals), d |-> mag.d])
             whole  == scaled \div Pow10(decimals)
             frac   == scaled % Pow10(decimals)
         IN  (IF value.n < 0 THEN "-" ELSE "")
             \o ToString(whole) \o "." \o ZeroPad(frac, decimals)

(***************************************************************************)
(* app/models/schemas.py                                                   *)
(***************************************************************************)
DEV_CAPITALISE_VS_EXPENSE == "DEV_CAPITALISE_VS_EXPENSE"

IP_FAIR_VALUE_VS_COST == "IP_FAIR_VALUE_VS_COST"

PolicyChoice == {DEV_CAPITALISE_VS_EXPENSE, IP_FAIR_VALUE_VS_COST}

\* Optional[float] = None
None == [none |-> TRUE]

(***************************************************************************)
(* app/services/evaluator.py: the metric calculator                        *)
(***************************************************************************)
\* Mutant: the division without its zero guard.
_safe_divide_unguarded(numerator, denominator) == RDiv(numerator, denominator)

_safe_divide(numerator, denominator) ==
    IF IsZero(denominator) THEN R(0) ELSE RDiv(numerator, denominator)

\* Mutant: the bonus proxy without its clamp.
_bonus_estimate_unclamped(eps) == RAdd(Rat(3, 5), RMul(eps, Rat(1, 2)))

_bonus_estimate(eps) ==
    PyMax(Rat(1, 2), PyMin(Rat(5, 2), RAdd(Rat(3, 5), RMul(eps, Rat(1, 2)))))

_prudence_score(gearing_percent) ==
    PyMax(R(1), PyMin(R(10), RSub(R(9), RDiv(gearing_percent, R(15)))))

\* The exception leaving a function of the evaluator.
RaisedError == [raised |-> "ZeroDivisionError"]

Raises(result) == "raised" \in DOMAIN result

MetricSet(eps, gearing) ==
    IF Raised(eps) \/ Raised(gearing) THEN RaisedError
    ELSE [eps            |-> eps,
          gearing        |-> gearing,
          bonus_estimate |-> _bonus_estimate(eps),
          prudence_score |-> _prudence_score(gearing)]

\* Mutant: gearing computed for every non-zero equity, negative included.
_calculate_metrics_nonzero_equity(profit_after_tax, debt, equity, shares) ==
    MetricSet(_safe_divide(profit_after_tax, shares),
              IF ~IsZero(equity)
              THEN RMul(_safe_divide(debt, equity), R(100))
              ELSE R(0))

\* Mutant: plain divisions, no defined-zero substitution.
_calculate_metrics_plain_division(profit_after_tax, debt, equity, shares) ==
    MetricSet(RDiv(profit_after_tax, shares), RMul(RDiv(debt, equity), R(100)))

_calculate_metrics(profit_after_tax, debt, equity, shares) ==
    MetricSet(_safe_divide(profit_after_tax, shares),
              IF RGt(equity, R(0))
              THEN RMul(_safe_divide(debt, equity), R(100))
              ELSE R(0))

(***************************************************************************)
(* app/services/evaluator.py: the scenario builder                         *)
(***************************************************************************)
development_cost(p) == PyMax(R(0), RMul(p.operating_profit, Rat(1, 5)))

\* Mutant: the development cost taken gross of tax.
net_cost_gross(p) == development_cost(p)

net_cost(p) == RMul(development_cost(p), RSub(R(1), p.tax_rate))

\* Mutant: the uplift without its floor at zero.
fair_value_uplift_unfloored(p) == RMul(p.equity, Rat(1, 25))

fair_value_uplift(p) == PyMax(R(0), RMul(p.equity, Rat(1, 25)))

capitalise_option_a(p) ==
    _calculate_metrics(RAdd(p.profit_after_tax, net_cost(p)),
                       p.debt,
                       RAdd(p.equity, development_cost(p)),
                       p.shares_outstanding)

\* Mutant: expensing adds the net cost back to equity.
capitalise_option_b_equity_added(p) ==
    _calculate_metrics(RSub(p.profit_after_tax, net_cost(p)),
                       p.debt,
                       RAdd(p.equity, net_cost(p)),
                       p.shares_outstanding)

capitalise_option_b(p) ==
    _calculate_metrics(RSub(p.profit_after_tax, net_cost(p)),
                       p.debt,
                       RSub(p.equity, net_cost(p)),
                       p.shares_outstanding)

fair_value_option_a(p) ==
    _calculate_metrics(
        RAdd(p.profit_after_tax,
             RMul(RMul(fair_value_uplift(p), RSub(R(1), p.tax_rate)), Rat(1, 5))),
        p.debt,
        RAdd(p.equity, RMul(fair_value_uplift(p), Rat(1, 2))),
        p.shares_outstanding)

fair_value_option_b(p) ==
    _calculate_metrics(
        RSub(p.profit_after_tax,
             RMul(RMul(fair_value_uplift(p), RSub(R(1), p.tax_rate)), Rat(1, 10))),
        p.debt,
        RSub(p.equity, RMul(fair_value_uplift(p), Rat(1, 5))),
        p.shares_outstanding)

Scenarios(base_metrics, option_a_metrics, option_b_metrics) ==
    IF Raises(base_metrics) \/ Raises(option_a_metrics) \/ Raises(option_b_metrics)
    THEN RaisedError
    ELSE [base_case |-> base_metrics,
          option_a  |-> option_a_metrics,
          option_b  |-> option_b_metrics]

_build_scenarios(p) ==
    LET base_metrics ==
            _calculate_metrics(p.profit_after_tax, p.debt, p.equity, p.shares_outstanding)
    IN  IF p.policy_choice = DEV_CAPITALISE_VS_EXPENSE
        THEN Scenarios(base_metrics, capitalise_option_a(p), capitalise_option_b(p))
        ELSE Scenarios(base_metrics, fair_value_option_a(p), fair_value_option_b(p))

(***************************************************************************)
(* app/services/evaluator.py: the stakeholder narrator                     *)
(***************************************************************************)
_format_delta(value, decimals) == FormatFixed(RAbs(value), decimals)

_policy_labels(policy_choice) ==
    IF policy_choice = DEV_CAPITALISE_VS_EXPENSE
    THEN <<"Capitalise", "Expense">>
    ELSE <<"Fair value", "Cost">>

StakeholderImpact(title, bullet_impacts, narrative) ==
    [title |-> title, bullet_impacts |-> bullet_impacts, narrative |-> narrative]

\* 'up' if delta > 0 else 'down' if delta < 0 else 'flat'
eps_direction(delta) ==
    IF RGt(delta, R(0)) THEN "up" ELSE IF RLt(delta, R(0)) THEN "down" ELSE "flat"

_build_investor_impact(policy_choice, base_metrics, option_a, option_b) ==
    LET label_a  == _policy_labels(policy_choice)[1]
        label_b  == _policy_labels(policy_choice)[2]
        eps_base == base_metrics.eps
        eps_a    == option_a.eps
        eps_b    == option_b.eps
        delta_a  == RSub(eps_a, eps_base)
        delta_b  == RSub(eps_b, eps_base)
        bullets  ==
            << label_a \o " moves EPS " \o eps_direction(delta_a) \o " by "
                 \o _format_delta(delta_a, 2) \o " vs base.",
               label_b \o " moves EPS " \o eps_direction(delta_b) \o " by "
                 \o _format_delta(delta_b, 2) \o " vs base." >>
        narrative ==
            "EPS shifts from " \o FormatFixed(eps_base, 2) \o " in the base case to "
              \o FormatFixed(eps_a, 2) \o " under " \o label_a \o " and "
              \o FormatFixed(eps_b, 2) \o " under " \o label_b
              \o ". Investors weigh earnings uplift against the "
              \o "quality and sustainability of those earnings, favoring policies backed by durable cash flows."
    IN  StakeholderImpact("Investors", bullets, narrative)

\* Mutant: a zero delta reported as a fall.
gearing_direction_zero_down(delta) ==
    IF RLe(delta, R(0)) THEN "down" ELSE IF RGt(delta, R(0)) THEN "up" ELSE "flat"

\* 'down' if delta < 0 else 'up' if delta > 0 else 'flat'
gearing_direction(delta) ==
    IF RLt(delta, R(0)) THEN "down" ELSE IF RGt(delta, R(0)) THEN "up" ELSE "flat"

\* Mutant: a worst gearing equal to the limit reported as a breach.
covenant_note_breach_at_limit(worst_gearing, covenant_max_gearing) ==
    IF RLe(covenant_max_gearing, worst_gearing)
    THEN "Covenant risk: gearing at " \o FormatFixed(worst_gearing, 1)
           \o "% exceeds " \o FormatFixed(covenant_max_gearing, 1) \o "%."
    ELSE "Covenant headroom remains with gearing at "
           \o FormatFixed(worst_gearing, 1) \o "% vs a "
           \o FormatFixed(covenant_max_gearing, 1) \o "% limit."

covenant_note(worst_gearing, covenant_max_gearing) ==
    IF RGt(worst_gearing, covenant_max_gearing)
    THEN "Covenant risk: gearing at " \o FormatFixed(worst_gearing, 1)
           \o "% exceeds " \o FormatFixed(covenant_max_gearing, 1) \o "%."
    ELSE "Covenant headroom remains with gearing at "
           \o FormatFixed(worst_gearing, 1) \o "% vs a "
           \o FormatFixed(covenant_max_gearing, 1) \o "% limit."

leverage_narrative(label_a, label_b, base_gearing, gearing_a, gearing_b) ==
    "Balance sheet leverage moves from " \o FormatFixed(base_gearing, 1)
      \o "% in the base case to " \o FormatFixed(gearing_a, 1) \o "% under "
      \o label_a \o " and " \o FormatFixed(gearing_b, 1) \o "% under " \o label_b
      \o ". Lenders focus on balance sheet "
      \o "strength and the level of covenant headroom through the cycle."

_build_lender_impact(policy_choice, base_metrics, option_a, option_b, covenant_max_gearing) ==
    LET label_a      == _policy_labels(policy_choice)[1]
        label_b      == _policy_labels(policy_choice)[2]
        base_gearing == base_metrics.gearing
        gearing_a    == option_a.gearing
        gearing_b    == option_b.gearing
        delta_a      == RSub(gearing_a, base_gearing)
        delta_b      == RSub(gearing_b, base_gearing)
        bullets      ==
            << label_a \o " shifts gearing " \o gearing_direction(delta_a) \o " by "
                 \o _format_delta(delta_a, 1) \o "pp vs base.",
               label_b \o " shifts gearing " \o gearing_direction(delta_b) \o " by "
                 \o _format_delta(delta_b, 1) \o "pp vs base." >>
        note         ==
            IF covenant_max_gearing # None
            THEN covenant_note(PyMax3(base_gearing, gearing_a, gearing_b),
                               covenant_max_gearing)
            ELSE ""
        narrative    ==
            leverage_narrative(label_a, label_b, base_gearing, gearing_a, gearing_b)
    IN  StakeholderImpact(
            "Lenders",
            IF covenant_max_gearing # None THEN Append(bullets, note) ELSE bullets,
            IF note # "" THEN narrative \o " " \o note ELSE narrative)

_stub_management_regulators(policy_choice) ==
    IF policy_choice = DEV_CAPITALISE_VS_EXPENSE
    THEN << StakeholderImpact(
                "Management",
                << "Bonus metrics improve with capitalisation.",
                   "Delivery pressure increases to justify the asset." >>,
                "Management benefits from a smoother earnings profile. "
                  \o "Execution discipline becomes the key justification for the choice."),
            StakeholderImpact(
                "Regulators",
                << "Expect tighter documentation on development criteria.",
                   "Scrutiny on impairment testing cadence." >>,
                "Regulators focus on evidence that capitalised projects meet recognition criteria. "
                  \o "They signal that disclosure quality will drive acceptance.") >>
    ELSE << StakeholderImpact(
                "Management",
                << "Valuation teams gain prominence in reporting cycles.",
                   "Narrative must explain revaluation drivers." >>,
                "Management spends more time defending valuation inputs. "
                  \o "A clear story on value drivers becomes central to stakeholder trust."),
            StakeholderImpact(
                "Regulators",
                << "Expect robust valuation governance processes.",
                   "Cost basis may reduce disclosure burden." >>,
                "Regulators focus on valuation independence and model governance. "
                  \o "They look for consistency in assumptions across reporting periods.") >>

(***************************************************************************)
(* app/services/evaluator.py: the orchestrator.  now is the reading of     *)
(* datetime.now(timezone.utc), uid the value uuid4() returns.              *)
(***************************************************************************)
ScenarioOutput(label, headline_metrics) ==
    [label |-> label, headline_metrics |-> headline_metrics]

evaluate(p, now, uid) ==
    LET scenarios == _build_scenarios(p)
    IN  IF Raises(scenarios) THEN scenarios
        ELSE [metadata |->
                  [request_id    |-> "uuid-" \o ToString(uid),
                   timestamp_utc |-> "t" \o ToString(now) \o "+00:00",
                   company_name  |-> p.company_name,
                   policy_choice |-> p.policy_choice,
                   currency      |-> p.currency],
              base_case |-> ScenarioOutput("Base case", scenarios.base_case),
              option_a  |-> ScenarioOutput("Option A", scenarios.option_a),
              option_b  |-> ScenarioOutput("Option B", scenarios.option_b),
              stakeholders |->
                  [investors  |-> _build_investor_impact(
                                      p.policy_choice, scenarios.base_case,
                                      scenarios.option_a, scenarios.option_b),
                   lenders    |-> _build_lender_impact(
                                      p.policy_choice, scenarios.base_case,
                                      scenarios.option_a, scenarios.option_b,
                                      p.covenant_max_gearing),
                   management |-> _stub_management_regulators(p.policy_choice)[1],
                   regulators |-> _stub_management_regulators(p.policy_choice)[2]]]

(***************************************************************************)
(* The requests the adapter hands to the core: EvaluationRequest records   *)
(* whose financial fields are multiples of the schema defaults, plus the   *)
(* degenerate values (zero shares, zero, small and negative equity,        *)
(* negative profit and debt, tax rates outside [0, 1]).                    *)
(***************************************************************************)
ProfitValues == {R(-120), R(0), R(120)}

OperatingProfitValues == {R(-180), R(0), R(180)}

EquityValues == {R(-800), R(0), R(20)} \cup {R(800 * k) : k \in 1 .. MaxScale}

\* The largest finite float is a debt the schema accepts.
DebtValues == {R(-300), R(0), R(300), R(FloatMax)}

SharesValues == {R(0), R(25), R(100)}

TaxRateValues == {R(0), Rat(1, 4), R(1), R(2)}

CovenantValues == {None, R(0), R(20), Rat(75, 2), R(50)}

EvaluationRequest(policy, op, pat, equity, debt, shares, tax_rate, covenant) ==
    [policy_choice        |-> policy,
     company_name         |-> "SampleCo",
     currency             |-> "GBP",
     revenue              |-> R(1200),
     operating_profit     |-> op,
     profit_after_tax     |-> pat,
     equity               |-> equity,
     debt                 |-> debt,
     shares_outstanding   |-> shares,
     tax_rate             |-> tax_rate,
     covenant_max_gearing |-> covenant]

Payloads ==
    {EvaluationRequest(pol, op, pat, eq, de, sh, tx, cov) :
        pol \in PolicyChoice, op \in OperatingProfitValues, pat \in ProfitValues,
        eq \in EquityValues, de \in DebtValues, sh \in SharesValues,
        tx \in TaxRateValues, cov \in CovenantValues}

\* The schema defaults, under either policy, with and without a covenant.
RepeatPayloads ==
    {EvaluationRequest(pol, R(180), R(120), R(800), R(300), R(100), Rat(1, 4), cov) :
        pol \in PolicyChoice, cov \in {None, R(50)}}

NoResponse == [none |-> TRUE]

(***************************************************************************)
(* The service.  pc is "received" while a validated request waits at the   *)
(* route and "responded" once the response was returned.  log keeps, per   *)
(* call, the request as handed in, the request record after the call and   *)
(* the response.                                                           *)
(***************************************************************************)
Init ==
    /\ payload \in Payloads
    /\ response = NoResponse
    /\ pc = "received"
    /\ clock = 0
    /\ uuids = 0
    /\ log = <<>>

InitRepeat ==
    /\ payload \in RepeatPayloads
    /\ response = NoResponse
    /\ pc = "received"
    /\ clock = 0
    /\ uuids = 0
    /\ log = <<>>

\* Mutant: the evaluator retains the covenant of the call before and
\* applies it to a request that carries none.
evaluate_policy_retaining_covenant ==
    /\ pc = "received"
    /\ payload' = payload
    /\ response' =
           evaluate([payload EXCEPT !.covenant_max_gearing =
                        IF @ = None /\ Len(log) > 0
                        THEN log[Len(log)].input.covenant_max_gearing
                        ELSE @],
                    clock, uuids + 1)
    /\ uuids' = uuids + 1
    /\ log' = Append(log, [input |-> payload, after |-> payload', output |-> response'])
    /\ pc' = "responded"
    /\ UNCHANGED clock

\* POST /api/v1/evaluate: evaluate(payload), the response returned.  The
\* evaluator reads the request record and assigns to none of its fields.
evaluate_policy ==
    /\ pc = "received"
    /\ payload' = payload
    /\ response' = evaluate(payload, clock, uuids + 1)
    /\ uuids' = uuids + 1
    /\ log' = Append(log, [input |-> payload, after |-> payload', output |-> response'])
    /\ pc' = "responded"
    /\ UNCHANGED clock

\* The adapter validates the next request.
Receive ==
    /\ pc = "responded"
    /\ Len(log) < MaxCalls
    /\ \E p \in RepeatPayloads : payload' = p
    /\ pc' = "received"
    /\ UNCHANGED <<response, clock, uuids, log>>

\* Time passes.
Tick ==
    /\ clock < MaxClock
    /\ clock' = clock + 1
    /\ UNCHANGED <<payload, response, pc, uuids, log>>

Next == evaluate_policy

Spec == Init /\ [][Next]_vars

NextRepeat == evaluate_policy \/ Receive \/ Tick

SpecRepeat == InitRepeat /\ [][NextRepeat]_vars

(***************************************************************************)
(* What the properties below are stated with.                              *)
(***************************************************************************)
Responded == pc = "responded"

Returned == Responded /\ ~Raises(response)

ScenarioKeys == {"base_case", "option_a", "option_b"}

Metrics(s) == response[s].headline_metrics

IsCapitalise == payload.policy_choice = DEV_CAPITALISE_VS_EXPENSE

IsFairValue == payload.policy_choice = IP_FAIR_VALUE_VS_COST

\* The documented financials: profit_after_tax=120, operating_profit=180,
\* tax_rate=0.25, equity=800, debt=300, shares=100.
DocumentedFinancials ==
    /\ payload.profit_after_tax = R(120)
    /\ payload.operating_profit = R(180)
    /\ payload.tax_rate = Rat(1, 4)
    /\ payload.equity = R(800)
    /\ payload.debt = R(300)
    /\ payload.shares_outstanding = R(100)

\* max(0, x * factor), stated by the sign of x.
FlooredShare(x, factor) == IF RGt(x, R(0)) THEN RMul(x, factor) ELSE R(0)

StatedDevelopmentCost == FlooredShare(payload.operating_profit, Rat(1, 5))

StatedNetCost == RMul(StatedDevelopmentCost, RSub(R(1), payload.tax_rate))

StatedUplift == FlooredShare(payload.equity, Rat(1, 25))

StatedUpliftAfterTax == RMul(StatedUplift, RSub(R(1), payload.tax_rate))

\* The profit after tax and the equity each scenario is stated to be
\* computed from.
StatedProfit(s) ==
    IF s = "base_case" THEN payload.profit_after_tax
    ELSE IF IsCapitalise
         THEN IF s = "option_a" THEN RAdd(payload.profit_after_tax, StatedNetCost)
              ELSE RSub(payload.profit_after_tax, StatedNetCost)
         ELSE IF s = "option_a"
              THEN RAdd(payload.profit_after_tax, RMul(StatedUpliftAfterTax, Rat(1, 5)))
              ELSE RSub(payload.profit_after_tax, RMul(StatedUpliftAfterTax, Rat(1, 10)))

StatedEquity(s) ==
    IF s = "base_case" THEN payload.equity
    ELSE IF IsCapitalise
         THEN IF s = "option_a" THEN RAdd(payload.equity, StatedDevelopmentCost)
              ELSE RSub(payload.equity, StatedNetCost)
         ELSE IF s = "option_a"
              THEN RAdd(payload.equity, RMul(StatedUplift, Rat(1, 2)))
              ELSE RSub(payload.equity, RMul(StatedUplift, Rat(1, 5)))

StatedMetrics(s) ==
    _calculate_metrics(StatedProfit(s), payload.debt, StatedEquity(s),
                       payload.shares_outstanding)

Clamp(v, lo, hi) == IF RLt(v, lo) THEN lo ELSE IF RGt(v, hi) THEN hi ELSE v

(***************************************************************************)
(* C1: under DEV_CAPITALISE_VS_EXPENSE the three metric sets are those of  *)
(* (profit, debt, equity, shares), (profit + net_cost, debt, equity +      *)
(* development_cost, shares) and (profit - net_cost, debt, equity -        *)
(* net_cost, shares), with development_cost = max(0, operating_profit *    *)
(* 0.2) and net_cost = development_cost * (1 - tax_rate); on the           *)
(* documented financials development_cost = 36, net_cost = 27, option A    *)
(* is computed from profit 147 and equity 836, option B from profit 93     *)
(* and equity 773, and the base case has eps 1.2 and gearing 37.5.         *)
(***************************************************************************)
C1_CapitaliseScenarios ==
    (Responded /\ IsCapitalise) =>
        /\ ~Raises(response)
        /\ \A s \in ScenarioKeys : Metrics(s) = StatedMetrics(s)
        /\ DocumentedFinancials =>
              /\ development_cost(payload) = R(36)
              /\ net_cost(payload) = R(27)
              /\ Metrics("option_a") = _calculate_metrics(R(147), R(300), R(836), R(100))
              /\ Metrics("option_b") = _calculate_metrics(R(93), R(300), R(773), R(100))
              /\ Metrics("option_a").eps = Rat(147, 100)
              /\ Metrics("option_b").eps = Rat(93, 100)
              /\ Metrics("base_case").eps = Rat(6, 5)
              /\ Metrics("base_case").gearing = Rat(75, 2)

C1_Witness ==
    /\ Returned
    /\ IsCapitalise
    /\ DocumentedFinancials
    /\ Metrics("option_a").eps = Rat(147, 100)
    /\ Metrics("option_b").gearing = Rat(30000, 773)

(***************************************************************************)
(* C2: under IP_FAIR_VALUE_VS_COST the three metric sets are those of      *)
(* (profit, debt, equity, shares), (profit + uplift*(1-tax_rate)*0.2,      *)
(* debt, equity + uplift*0.5, shares) and (profit - uplift*(1-tax_rate)*   *)
(* 0.1, debt, equity - uplift*0.2, shares), with uplift = max(0, equity *  *)
(* 0.04); on the documented financials uplift = 32, option A is computed   *)
(* from profit 124.8 and equity 816, option B from profit 117.6 and        *)
(* equity 793.6.                                                           *)
(***************************************************************************)
C2_FairValueScenarios ==
    (Responded /\ IsFairValue) =>
        /\ ~Raises(response)
        /\ \A s \in ScenarioKeys : Metrics(s) = StatedMetrics(s)
        /\ DocumentedFinancials =>
              /\ fair_value_uplift(payload) = R(32)
              /\ Metrics("option_a") =
                     _calculate_metrics(Rat(1248, 10), R(300), R(816), R(100))
              /\ Metrics("option_b") =
                     _calculate_metrics(Rat(1176, 10), R(300), Rat(7936, 10), R(100))
              /\ Metrics("option_a").eps = Rat(1248, 1000)
              /\ Metrics("option_b").eps = Rat(1176, 1000)

C2_Witness ==
    /\ Returned
    /\ IsFairValue
    /\ DocumentedFinancials
    /\ Metrics("option_a").eps = Rat(156, 125)
    /\ Metrics("option_b").gearing = Rat(300000, 7936)

(***************************************************************************)
(* C3: in every returned metric set eps is the scenario's profit after     *)
(* tax divided by the share count (so eps times the share count is that    *)
(* profit) when shares_outstanding > 0, and eps is 0 (no failure) when     *)
(* shares_outstanding = 0.                                                 *)
(***************************************************************************)
C3_EpsDefined ==
    Responded =>
        /\ ~Raises(response)
        /\ \A s \in ScenarioKeys :
              /\ payload.shares_outstanding.n > 0 =>
                     /\ Metrics(s).eps = RDiv(StatedProfit(s), payload.shares_outstanding)
                     /\ RMul(Metrics(s).eps, payload.shares_outstanding) = StatedProfit(s)
              /\ IsZero(payload.shares_outstanding) => Metrics(s).eps = R(0)

C3_Witness ==
    /\ Returned
    /\ payload.shares_outstanding = R(0)
    /\ payload.profit_after_tax = R(120)
    /\ \A s \in ScenarioKeys : Metrics(s).eps = R(0)

(***************************************************************************)
(* C4: in every returned metric set gearing is debt / equity * 100 when    *)
(* the scenario's equity is > 0 (so, unless it overflowed, gearing times   *)
(* that equity is debt times 100), and gearing is 0 when the equity is     *)
(* zero or negative, whatever the debt; the equity is the adjusted one     *)
(* for option A and option B.                                              *)
(***************************************************************************)
C4_GearingDefined ==
    Responded =>
        /\ ~Raises(response)
        /\ \A s \in ScenarioKeys :
              /\ RGt(StatedEquity(s), R(0)) =>
                     /\ Metrics(s).gearing =
                            RMul(RDiv(payload.debt, StatedEquity(s)), R(100))
                     /\ ~IsInf(Metrics(s).gearing) =>
                            Metrics(s).gearing.n * StatedEquity(s).n * payload.debt.d =
                                100 * payload.debt.n * Metrics(s).gearing.d * StatedEquity(s).d
              /\ RLe(StatedEquity(s), R(0)) => Metrics(s).gearing = R(0)

C4_Witness ==
    /\ Returned
    /\ payload.debt.n < 0
    /\ payload.equity.n > 0
    /\ StatedEquity("option_b").n < 0
    /\ Metrics("base_case").gearing.n < 0
    /\ Metrics("option_b").gearing = R(0)

(***************************************************************************)
(* C5: in each of the three returned scenarios bonus_estimate is           *)
(* clamp(0.6 + eps * 0.5, 0.5, 2.5) and lies in [0.5, 2.5], and            *)
(* prudence_score is clamp(9.0 - gearing / 15.0, 1.0, 10.0) and lies in    *)
(* [1.0, 10.0].                                                            *)
(***************************************************************************)
C5_ScoresClamped ==
    Responded =>
        /\ ~Raises(response)
        /\ \A s \in ScenarioKeys :
              LET m == Metrics(s)
              IN  /\ m.bonus_estimate =
                         Clamp(RAdd(Rat(6, 10), RMul(m.eps, Rat(5, 10))), Rat(5, 10), Rat(25, 10))
                  /\ RLe(Rat(5, 10), m.bonus_estimate)
                  /\ RLe(m.bonus_estimate, Rat(25, 10))
                  /\ m.prudence_score =
                         Clamp(RSub(R(9), RMul(m.gearing, Rat(1, 15))), R(1), R(10))
                  /\ RLe(R(1), m.prudence_score)
                  /\ RLe(m.prudence_score, R(10))

\* Few shares push the unclamped bonus above 2.5, debt far above equity
\* pushes the unclamped prudence below 1.0, and option B is left with
\* negative equity.
C5_Witness ==
    /\ Returned
    /\ RGt(RAdd(Rat(6, 10), RMul(Metrics("base_case").eps, Rat(5, 10))), Rat(25, 10))
    /\ Metrics("base_case").bonus_estimate = Rat(5, 2)
    /\ RLt(RSub(R(9), RMul(Metrics("base_case").gearing, Rat(1, 15))), R(1))
    /\ Metrics("base_case").prudence_score = R(1)
    /\ StatedEquity("option_b").n < 0
    /\ Metrics("option_b").prudence_score = R(9)

(***************************************************************************)
(* What the narrator's properties are stated with.                         *)
(***************************************************************************)
Lenders == response.stakeholders.lenders

Investors == response.stakeholders.investors

\* A value that is one of the three and below none of them.
IsWorstGearing(w) ==
    /\ \E s \in ScenarioKeys : w = Metrics(s).gearing
    /\ \A s \in ScenarioKeys : RLe(Metrics(s).gearing, w)

BreachText(worst, limit) ==
    "Covenant risk: gearing at " \o FormatFixed(worst, 1) \o "% exceeds "
      \o FormatFixed(limit, 1) \o "%."

HeadroomText(worst, limit) ==
    "Covenant headroom remains with gearing at " \o FormatFixed(worst, 1)
      \o "% vs a " \o FormatFixed(limit, 1) \o "% limit."

LeverageText ==
    leverage_narrative(_policy_labels(payload.policy_choice)[1],
                       _policy_labels(payload.policy_choice)[2],
                       Metrics("base_case").gearing,
                       Metrics("option_a").gearing,
                       Metrics("option_b").gearing)

StatedLabel(option) ==
    IF IsCapitalise
    THEN (IF option = "option_a" THEN "Capitalise" ELSE "Expense")
    ELSE (IF option = "option_a" THEN "Fair value" ELSE "Cost")

InvestorBullet(label, word, delta) ==
    label \o " moves EPS " \o word \o " by " \o FormatFixed(RAbs(delta), 2) \o " vs base."

LenderBullet(label, word, delta) ==
    label \o " shifts gearing " \o word \o " by " \o FormatFixed(RAbs(delta), 1)
      \o "pp vs base."

EpsDelta(option) == RSub(Metrics(option).eps, Metrics("base_case").eps)

GearingDelta(option) == RSub(Metrics(option).gearing, Metrics("base_case").gearing)

BulletIndex(option) == IF option = "option_a" THEN 1 ELSE 2

\* The bullet is the one of the three wordings that goes with the delta's
\* sign, and is neither of the other two; flat goes with a delta that is
\* exactly zero.
WordMatchesSign(bullet, delta, up, down, flat) ==
    /\ RGt(delta, R(0)) <=> (bullet = up)
    /\ RLt(delta, R(0)) <=> (bullet = down)
    /\ IsZero(delta) <=> (bullet = flat)

\* The same, flat going with every delta that is neither above nor below
\* zero: a zero, or the nan that the difference of two equal infinities is.
WordMatchesComparison(bullet, delta, up, down, flat) ==
    /\ RGt(delta, R(0)) <=> (bullet = up)
    /\ RLt(delta, R(0)) <=> (bullet = down)
    /\ (IsZero(delta) \/ IsNaN(delta)) <=> (bullet = flat)

(***************************************************************************)
(* C6: with covenant_max_gearing present (0.0 included) the lenders        *)
(* impact has exactly three bullets, the third being the covenant bullet   *)
(* for worst = max of the three gearings, and the narrative ends with the  *)
(* same text; the text states breach iff worst > covenant_max_gearing and  *)
(* headroom otherwise (worst = limit included), quoting worst and limit.   *)
(* With it absent there are exactly two bullets and no covenant text in    *)
(* the narrative.  Worst 37.5 states breach at limit 20.0 and headroom at  *)
(* limit 50.0.                                                             *)
(***************************************************************************)
C6_CovenantBullet ==
    Responded =>
        /\ ~Raises(response)
        /\ LET limit   == payload.covenant_max_gearing
               bullets == Lenders.bullet_impacts
           IN  IF limit = None
               THEN /\ Len(bullets) = 2
                    /\ Lenders.narrative = LeverageText
               ELSE /\ Len(bullets) = 3
                    /\ Lenders.narrative = LeverageText \o " " \o bullets[3]
                    /\ \A w \in {Metrics(s).gearing : s \in ScenarioKeys} :
                          IsWorstGearing(w) =>
                              /\ RGt(w, limit) <=> (bullets[3] = BreachText(w, limit))
                              /\ RLe(w, limit) <=> (bullets[3] = HeadroomText(w, limit))
                    /\ (IsWorstGearing(Rat(75, 2)) /\ limit = R(20)) =>
                          bullets[3] = "Covenant risk: gearing at 37.5% exceeds 20.0%."
                    /\ (IsWorstGearing(Rat(75, 2)) /\ limit = R(50)) =>
                          bullets[3] =
                              "Covenant headroom remains with gearing at 37.5% vs a 50.0% limit."

\* The worst gearing equals the limit: headroom, not breach.
C6_Witness ==
    /\ Returned
    /\ payload.covenant_max_gearing = Rat(75, 2)
    /\ IsWorstGearing(Rat(75, 2))
    /\ Len(Lenders.bullet_impacts) = 3
    /\ Lenders.bullet_impacts[3] =
           "Covenant headroom remains with gearing at 37.5% vs a 37.5% limit."

(***************************************************************************)
(* C7: for option A and option B the investors bullet says "up" iff        *)
(* eps(option) - eps(base) > 0, "down" iff it is < 0 and "flat" iff it is  *)
(* exactly 0, and the lenders bullet the same for gearing(option) -        *)
(* gearing(base); the labels are Capitalise/Expense under                  *)
(* DEV_CAPITALISE_VS_EXPENSE and Fair value/Cost under                     *)
(* IP_FAIR_VALUE_VS_COST, option A's bullet first.                         *)
(* As stated it fails: a debt large enough for debt / equity * 100 to      *)
(* overflow makes two gearings inf and their delta nan, and the bullet     *)
(* then says "flat".                                                       *)
(***************************************************************************)
C7_DirectionWords_AsStated ==
    Responded =>
        /\ ~Raises(response)
        /\ Len(Investors.bullet_impacts) = 2
        /\ \A option \in {"option_a", "option_b"} :
              /\ WordMatchesSign(
                     Investors.bullet_impacts[BulletIndex(option)], EpsDelta(option),
                     InvestorBullet(StatedLabel(option), "up", EpsDelta(option)),
                     InvestorBullet(StatedLabel(option), "down", EpsDelta(option)),
                     InvestorBullet(StatedLabel(option), "flat", EpsDelta(option)))
              /\ WordMatchesSign(
                     Lenders.bullet_impacts[BulletIndex(option)], GearingDelta(option),
                     LenderBullet(StatedLabel(option), "up", GearingDelta(option)),
                     LenderBullet(StatedLabel(option), "down", GearingDelta(option)),
                     LenderBullet(StatedLabel(option), "flat", GearingDelta(option)))

(***************************************************************************)
(* C7, amended: the word is "up" iff delta > 0, "down" iff delta < 0, and  *)
(* "flat" iff delta is neither (exactly 0, or not a number); labels and    *)
(* order as stated.                                                        *)
(***************************************************************************)
C7_DirectionWords ==
    Responded =>
        /\ ~Raises(response)
        /\ Len(Investors.bullet_impacts) = 2
        /\ \A option \in {"option_a", "option_b"} :
              /\ WordMatchesComparison(
                     Investors.bullet_impacts[BulletIndex(option)], EpsDelta(option),
                     InvestorBullet(StatedLabel(option), "up", EpsDelta(option)),
                     InvestorBullet(StatedLabel(option), "down", EpsDelta(option)),
                     InvestorBullet(StatedLabel(option), "flat", EpsDelta(option)))
              /\ WordMatchesComparison(
                     Lenders.bullet_impacts[BulletIndex(option)], GearingDelta(option),
                     LenderBullet(StatedLabel(option), "up", GearingDelta(option)),
                     LenderBullet(StatedLabel(option), "down", GearingDelta(option)),
                     LenderBullet(StatedLabel(option), "flat", GearingDelta(option)))

\* Flat for a delta that is no number: the base and option A gearings both
\* overflowed, while option B, left with negative equity, has gearing 0 and
\* is reported down; the EPS bullets say up and down.
C7_Witness ==
    /\ Returned
    /\ IsCapitalise
    /\ IsInf(Metrics("base_case").gearing)
    /\ IsNaN(GearingDelta("option_a"))
    /\ Lenders.bullet_impacts[1] = "Capitalise shifts gearing flat by nanpp vs base."
    /\ Lenders.bullet_impacts[2] = "Expense shifts gearing down by infpp vs base."
    /\ Investors.bullet_impacts =
           << "Capitalise moves EPS up by 0.27 vs base.",
              "Expense moves EPS down by 0.27 vs base." >>

\* Flat for a delta that is exactly zero: without shares every eps is 0,
\* while option A's gearing falls and option B's rises.
C7_FlatAtZero ==
    /\ Returned
    /\ IsFairValue
    /\ payload.shares_outstanding = R(0)
    /\ Investors.bullet_impacts =
           << "Fair value moves EPS flat by 0.00 vs base.",
              "Cost moves EPS flat by 0.00 vs base." >>
    /\ RLt(GearingDelta("option_a"), R(0))
    /\ RGt(GearingDelta("option_b"), R(0))
    /\ Lenders.bullet_impacts[1] = LenderBullet("Fair value", "down", GearingDelta("option_a"))
    /\ Lenders.bullet_impacts[2] = LenderBullet("Cost", "up", GearingDelta("option_b"))

(***************************************************************************)
(* C8: every request gets a result and no error: three scenarios labelled  *)
(* "Base case", "Option A", "Option B", each with exactly the metrics      *)
(* eps, gearing, bonus_estimate, prudence_score, and the four stakeholder  *)
(* impacts.                                                                *)
(***************************************************************************)
C8_EvaluateTotal ==
    /\ pc = "received" => ~Raises(evaluate(payload, clock, uuids + 1))
    /\ Responded =>
          /\ ~Raises(response)
          /\ DOMAIN response =
                 {"metadata", "base_case", "option_a", "option_b", "stakeholders"}
          /\ response.base_case.label = "Base case"
          /\ response.option_a.label = "Option A"
          /\ response.option_b.label = "Option B"
          /\ \A s \in ScenarioKeys :
                DOMAIN Metrics(s) = {"eps", "gearing", "bonus_estimate", "prudence_score"}
          /\ DOMAIN response.stakeholders =
                 {"investors", "lenders", "management", "regulators"}
          /\ response.stakeholders.investors.title = "Investors"
          /\ response.stakeholders.lenders.title = "Lenders"
          /\ response.stakeholders.management.title = "Management"
          /\ response.stakeholders.regulators.title = "Regulators"

\* Zero shares, zero equity, negative profit and negative debt at once.
C8_Witness ==
    /\ Returned
    /\ payload.shares_outstanding = R(0)
    /\ payload.equity = R(0)
    /\ payload.profit_after_tax.n < 0
    /\ payload.debt.n < 0
    /\ payload.covenant_max_gearing # None
    /\ response.option_b.label = "Option B"

(***************************************************************************)
(* C9: two evaluate calls with the same input, whatever calls lie between  *)
(* them, return the same scenario metrics for all three scenarios and the  *)
(* same title, bullets and narrative for all four stakeholders; only       *)
(* request_id and timestamp_utc of the metadata may differ; and a call     *)
(* leaves its input record as it was handed in.                            *)
(***************************************************************************)
\* A response without the two metadata fields that may differ.
Content(r) ==
    [base_case     |-> r.base_case,
     option_a      |-> r.option_a,
     option_b      |-> r.option_b,
     stakeholders  |-> r.stakeholders,
     company_name  |-> r.metadata.company_name,
     policy_choice |-> r.metadata.policy_choice,
     currency      |-> r.metadata.currency]

OrderedGearingCase ==
    /\ RLe(R(0), payload.debt)
    /\ RGt(payload.equity, R(0))
    /\ RLe(R(0), payload.tax_rate)
    /\ RLe(payload.tax_rate, R(1))
    /\ RGt(StatedEquity("option_b"), R(0))

C10_GearingOrdered ==
    Responded =>
        /\ ~Raises(response)
        /\ (IsFairValue /\ RGt(payload.equity, R(0))) => RGt(StatedEquity("option_b"), R(0))
        /\ IsCapitalise =>
              (RGt(StatedEquity("option_b"), R(0)) <=> RLt(StatedNetCost, payload.equity))
        /\ OrderedGearingCase =>
              /\ RLe(Metrics("option_a").gearing, Metrics("base_case").gearing)
              /\ RLe(Metrics("base_case").gearing, Metrics("option_b").gearing)
              /\ Lenders.bullet_impacts[1] #
                     LenderBullet(StatedLabel("option_a"), "up", GearingDelta("option_a"))
              /\ Lenders.bullet_impacts[2] #
                     LenderBullet(StatedLabel("option_b"), "down", GearingDelta("option_b"))
              /\ payload.covenant_max_gearing # None =>
                     Lenders.bullet_impacts[3] \in
                         { BreachText(Metrics("option_b").gearing, payload.covenant_max_gearing),
                           HeadroomText(Metrics("option_b").gearing, payload.covenant_max_gearing) }

\* Strictly ordered gearings with a covenant that only option B breaches.
C10_Witness ==
    /\ Returned
    /\ OrderedGearingCase
    /\ IsCapitalise
    /\ RLt(Metrics("option_a").gearing, Metrics("base_case").gearing)
    /\ RLt(Metrics("base_case").gearing, Metrics("option_b").gearing)
    /\ payload.covenant_max_gearing = Rat(75, 2)
    /\ Lenders.bullet_impacts[3] =
           BreachText(Metrics("option_b").gearing, payload.covenant_max_gearing)

====
